---- MODULE Spec2Model ----
(***************************************************************************)
(* Model of src/reload.py: CiscoISR4331Manager.execute_upgrade_procedure   *)
(* and the methods it calls.  One run of the upgrade procedure is a        *)
(* sequential state machine; the device, the command session transport     *)
(* (netmiko) and the reachability probe (ping3) are the environment, and   *)
(* every answer they can give is a nondeterministic choice.                *)
(*                                                                         *)
(* Texts (command responses, the boot image) are sequences of atoms: an    *)
(* atom is a piece of text without whitespace, or one of the whitespace    *)
(* atoms " " and "\n".  Python's `needle in text` is then the contiguous   *)
(* subsequence test and `text.split()` cuts at runs of whitespace atoms.   *)
(*                                                                         *)
(* Time is counted in whole seconds.  A sleep lasts exactly its argument   *)
(* and a probe that gets no answer lasts between 0 and its timeout.        *)
(***************************************************************************)
EXTENDS Integers, Sequences, FiniteSets

VARIABLES
    pc,          \* position in execute_upgrade_procedure and its callees
    connection,  \* self.connection: 0 is None, else an index into sessions
    sessions,    \* every session ConnectHandler opened: "open" or "closed"
    boot_image,  \* local boot_image of execute_upgrade_procedure
    trace,       \* steps invoked so far, with their result (history)
    outcome,     \* which of the final log lines 129/131/133/136 was written
    error,       \* type of the exception caught at line 135, or "none"
    uncaught,    \* an exception left execute_upgrade_procedure
    pingCall,    \* which ping_with_timestamp call is running: "pre"/"post"
    elapsed,     \* datetime.now() - start_time of the running ping call
    probes,      \* ping() calls made by the running ping call (history)
    lastProbe,   \* result of the last ping() call
    pingResult,  \* return value of ping_with_timestamp
    attempt,     \* loop variable of reconnect
    rc_opens,    \* connect() calls made by reconnect (history)
    rc_failed,   \* connect() calls of reconnect that raised (history)
    rc_slept,    \* seconds reconnect spent in time.sleep (history)
    rc_exc,      \* the exception `e` a clause of lines 97-102 holds
    rc_result    \* return value of reconnect

vars ==
    << pc, connection, sessions, boot_image, trace, outcome, error, uncaught,
       pingCall, elapsed, probes, lastProbe, pingResult,
       attempt, rc_opens, rc_failed, rc_slept, rc_exc, rc_result >>

pingVars == << pingCall, elapsed, probes, lastProbe, pingResult >>

rcVars == << attempt, rc_opens, rc_failed, rc_slept, rc_exc, rc_result >>

----
\* Program constants.

\* wait_time=8 (minutes), lines 63, 124, 127
wait_time == 8

\* the factor of `wait_time * 60`, line 67
SecondsPerMinute == 60

\* time.sleep(5), line 74
PollInterval == 5

\* ping(host, timeout=2), line 69
ProbeTimeout == 2

\* max_retries=20, line 90
max_retries == 20

\* retry_delay=30, line 90
retry_delay == 30

\* timedelta.seconds is the seconds field of a normalised timedelta
SecondsPerDay == 86400

TotalWindow == wait_time * SecondsPerMinute

----
\* Texts.

IsSpace(a) == a \in {" ", "\n"}

\* Python `needle in text`
In(needle, text) ==
    \E i \in 0..(Len(text) - Len(needle)) :
        SubSeq(text, i + 1, i + Len(needle)) = needle

RECURSIVE SplitAcc(_, _, _)
SplitAcc(text, cur, acc) ==
    IF text = << >>
    THEN IF cur = << >> THEN acc ELSE Append(acc, cur)
    ELSE IF IsSpace(Head(text))
         THEN SplitAcc(Tail(text), << >>,
                       IF cur = << >> THEN acc ELSE Append(acc, cur))
         ELSE SplitAcc(Tail(text), Append(cur, Head(text)), acc)

\* Python `text.split()`: the whitespace-separated tokens
Split(text) == SplitAcc(text, << >>, << >>)

\* `boot_output.split()[-1]`, line 43
LastToken(text) == Split(text)[Len(Split(text))]

\* the needle of line 38
BootDirective == << "boot", " ", "system" >>

\* the needle of line 52
VerifiedPhrase == << "successfully", " ", "verified" >>

\* faulty variant of line 38: `if not boot_output`
BootStatementFound_NonEmpty(boot_output) == boot_output # << >>

\* line 38: the test `"boot system" not in boot_output`, negated
BootStatementFound(boot_output) == In(BootDirective, boot_output)

\* faulty variant of line 52: `"verified" not in verify_output`
ImageVerified_Loose(verify_output) == In(<< "verified" >>, verify_output)

\* line 52: the test `"successfully verified" not in verify_output`, negated
ImageVerified(verify_output) == In(VerifiedPhrase, verify_output)

\* faulty variant of line 111: `if version_output`
VersionMatches_NonEmpty(expected_boot_image, version_output) ==
    version_output # << >>

\* line 111
VersionMatches(expected_boot_image, version_output) ==
    In(expected_boot_image, version_output)

----
\* What the environment can answer.

\* show running-config | include boot system
BootOutputs ==
    { << >>,
      << "no", " ", "match" >>,
      << "boot", " ", "system", " ", "imgA" >>,
      << "boot", " ", "system", " ", "imgA", "\n",
         "boot", " ", "system", " ", "imgB" >>,
      << "boot", " ", "system", " ", "imgA", "\n",
         "%SYS-5-CONFIG_I:", " ", "Configured" >> }

\* verify <image>
VerifyOutputs ==
    { << "Signature", " ", "successfully", " ", "verified" >>,
      << "Signature", " ", "not", " ", "verified" >>,
      << "verification", " ", "failed" >> }

\* show version | include System image file is
VersionOutputs ==
    { << "System", " ", "image", " ", "file", " ", "is", " ", "\"", "imgA", "\"" >>,
      << "System", " ", "image", " ", "file", " ", "is", " ", "\"", "imgB", "\"" >> }

Exc(t, n) == [type |-> t, errno |-> n]

\* what ConnectHandler(**self.device) can do, line 29
ConnectOutcomes ==
    { "ok", "NetmikoTimeoutException", "NetmikoAuthenticationException",
      "OSError" }

\* every class above derives from Exception
IsException(o) == o \in ConnectOutcomes \ {"ok"}

\* what send_command can raise
CommandErrors ==
    { Exc("ReadTimeout", "none"), Exc("OSError", "EBADF"),
      Exc("OSError", "EPIPE") }

\* what ping() can return (None, a delay) or raise
ProbeResults == { "None", "delay", "raise" }

\* what disconnect() can do, line 139
DisconnectOutcomes == { "ok", "raise" }

\* the transport is gone after an OSError; after a timeout it is still there
AfterError(e, state) == IF e.type = "OSError" THEN "closed" ELSE state

OpenSessions == { i \in DOMAIN sessions : sessions[i] = "open" }

----
\* History.

\* out is the response the step read, or the exception it raised
Entry(s, r, o) == [step |-> s, res |-> r, out |-> o]

Raised(e) == << e.type, e.errno >>

Began(s) == Append(trace, Entry(s, "run", << >>))

SetLast(tr, r, o) == [tr EXCEPT ![Len(tr)] = Entry(@.step, r, o)]

Ended(r) == SetLast(trace, r, << >>)

Steps(s) == { i \in DOMAIN trace : trace[i].step = s }

----
\* __init__, lines 16-24
Init ==
    /\ pc = "connect"
    /\ connection = 0
    /\ sessions = << >>
    /\ boot_image = << >>
    /\ trace = << >>
    /\ outcome = "none"
    /\ error = "none"
    /\ uncaught = FALSE
    /\ pingCall = "none"
    /\ elapsed = 0
    /\ probes = 0
    /\ lastProbe = "none"
    /\ pingResult = FALSE
    /\ attempt = 0
    /\ rc_opens = 0
    /\ rc_failed = 0
    /\ rc_slept = 0
    /\ rc_exc = "none"
    /\ rc_result = FALSE

\* lines 135-136: `except Exception` logs and falls into `finally`
Caught(e) ==
    /\ error' = e
    /\ outcome' = "procedure_failed"
    /\ pc' = "teardown"

\* lines 26-33 and 120: connect() as step 1
Connect ==
    /\ pc = "connect"
    /\ \E o \in ConnectOutcomes :
        IF o = "ok"
        THEN /\ sessions' = Append(sessions, "open")
             /\ connection' = Len(sessions) + 1
             /\ trace' = Append(trace, Entry("connect", "ok", << >>))
             /\ pc' = "check"
             /\ UNCHANGED << outcome, error >>
        ELSE /\ trace' = Append(trace, Entry("connect", "fail", << >>))
             /\ Caught(o)
             /\ UNCHANGED << sessions, connection >>
    /\ UNCHANGED << boot_image, uncaught, pingVars, rcVars >>


\* send_command raised at a step of lines 121-123 or 128: the exception
\* propagates to line 135
CommandFails(s, e) ==
    /\ sessions' = [sessions EXCEPT ![connection] = AfterError(e, @)]
    /\ trace' = Append(trace, Entry(s, "fail", Raised(e)))
    /\ Caught(e.type)

\* lines 35-45 and 121
CheckBootStatement ==
    /\ pc = "check"
    /\ \/ \E boot_output \in BootOutputs :
            /\ IF BootStatementFound(boot_output)
               THEN /\ boot_image' = LastToken(boot_output)
                    /\ trace' = Append(trace, Entry("check", "ok", boot_output))
                    /\ pc' = "verify"
                    /\ UNCHANGED << outcome, error >>
               ELSE /\ trace' = Append(trace, Entry("check", "fail", boot_output))
                    /\ Caught("ValueError")
                    /\ UNCHANGED boot_image
            /\ UNCHANGED sessions
       \/ \E e \in CommandErrors :
            /\ CommandFails("check", e)
            /\ UNCHANGED boot_image
    /\ UNCHANGED << connection, uncaught, pingVars, rcVars >>

\* lines 47-56 and 122
VerifyBootImage ==
    /\ pc = "verify"
    /\ \/ \E verify_output \in VerifyOutputs :
            /\ IF ImageVerified(verify_output)
               THEN /\ trace' = Append(trace, Entry("verify", "ok", verify_output))
                    /\ pc' = "save"
                    /\ UNCHANGED << outcome, error >>
               ELSE /\ trace' = Append(trace, Entry("verify", "fail", verify_output))
                    /\ Caught("ValueError")
            /\ UNCHANGED sessions
       \/ \E e \in CommandErrors : CommandFails("verify", e)
    /\ UNCHANGED << connection, boot_image, uncaught, pingVars, rcVars >>

\* lines 58-61 and 123
SaveConfiguration ==
    /\ pc = "save"
    /\ \/ /\ trace' = Append(trace, Entry("save", "ok", << >>))
          /\ pc' = "preping"
          /\ UNCHANGED << sessions, outcome, error >>
       \/ \E e \in CommandErrors : CommandFails("save", e)
    /\ UNCHANGED << connection, boot_image, uncaught, pingVars, rcVars >>

----
\* ping_with_timestamp, lines 63-76, called at lines 124 and 127.

\* timedelta.seconds of a non-negative timedelta, line 67
Seconds(delta) == delta % SecondsPerDay

\* faulty variant of line 67: `<=` for `<`
WindowOpen_Inclusive(delta) == Seconds(delta) <= TotalWindow

\* line 67: the loop condition
WindowOpen(delta) == Seconds(delta) < TotalWindow

\* faulty variant of line 70: `result is not False`
ProbeAnswered_NotFalse(result) == result # "False"

\* line 70: `result is not None`
ProbeAnswered(result) == result # "None"

\* lines 65-66: the call, start_time = datetime.now()
PingStart ==
    /\ pc \in {"preping", "postping"}
    /\ pingCall' = (IF pc = "preping" THEN "pre" ELSE "post")
    /\ elapsed' = 0
    /\ probes' = 0
    /\ lastProbe' = "none"
    /\ pingResult' = FALSE
    /\ trace' = Began(pc)
    /\ pc' = "ping_test"
    /\ UNCHANGED << connection, sessions, boot_image, outcome, error,
                    uncaught, rcVars >>

\* line 67, and lines 75-76 when the window has passed
PingTest ==
    /\ pc = "ping_test"
    /\ IF WindowOpen(elapsed)
       THEN /\ pc' = "ping_probe"
            /\ UNCHANGED pingResult
       ELSE /\ pingResult' = FALSE
            /\ pc' = "ping_ret"
    /\ UNCHANGED << connection, sessions, boot_image, trace, outcome, error,
                    uncaught, pingCall, elapsed, probes, lastProbe, rcVars >>

\* lines 68-73: one probe.  A probe without answer lasts d seconds.  When
\* ping() raises, the call is left and its locals are dropped.
PingProbe ==
    /\ pc = "ping_probe"
    /\ \E result \in ProbeResults :
        IF result = "raise"
        THEN /\ trace' = Ended("fail")
             /\ Caught("OSError")
             /\ pingCall' = "none"
             /\ elapsed' = 0
             /\ probes' = 0
             /\ lastProbe' = "none"
             /\ UNCHANGED pingResult
        ELSE /\ probes' = probes + 1
             /\ lastProbe' = result
             /\ IF ProbeAnswered(result)
                THEN /\ pingResult' = TRUE
                     /\ pc' = "ping_ret"
                     /\ UNCHANGED elapsed
                ELSE /\ \E d \in 0..ProbeTimeout : elapsed' = elapsed + d
                     /\ pc' = "ping_sleep"
                     /\ UNCHANGED pingResult
             /\ UNCHANGED << trace, outcome, error, pingCall >>
    /\ UNCHANGED << connection, sessions, boot_image, uncaught, rcVars >>

\* line 74
PingSleep ==
    /\ pc = "ping_sleep"
    /\ elapsed' = elapsed + PollInterval
    /\ pc' = "ping_test"
    /\ UNCHANGED << connection, sessions, boot_image, trace, outcome, error,
                    uncaught, pingCall, probes, lastProbe, pingResult, rcVars >>

\* faulty variant of line 127: reconnect is called whatever the ping returned
PingReturn_NoShortCircuit ==
    /\ pc = "ping_ret"
    /\ trace' = Ended(IF pingResult THEN "true" ELSE "false")
    /\ pc' = (IF pingCall = "pre" THEN "reload" ELSE "reconnect")
    /\ pingCall' = "none"
    /\ elapsed' = 0
    /\ probes' = 0
    /\ lastProbe' = "none"
    /\ UNCHANGED << connection, sessions, boot_image, outcome, error,
                    uncaught, pingResult, rcVars >>

\* faulty variant of line 124: the result of the first ping is tested too
PingReturn_GatesBoth ==
    /\ pc = "ping_ret"
    /\ trace' = Ended(IF pingResult THEN "true" ELSE "false")
    /\ IF pingResult
       THEN /\ pc' = (IF pingCall = "pre" THEN "reload" ELSE "reconnect")
            /\ UNCHANGED outcome
       ELSE /\ pc' = "teardown"
            /\ outcome' = "no_response_or_reconnect_failed"
    /\ pingCall' = "none"
    /\ elapsed' = 0
    /\ probes' = 0
    /\ lastProbe' = "none"
    /\ UNCHANGED << connection, sessions, boot_image, error, uncaught,
                    pingResult, rcVars >>

\* the return (the locals are dropped) to line 124 (result dropped) or line 127 (result tested; on
\* False the `and` does not call reconnect and line 133 logs the failure)
PingReturn ==
    /\ pc = "ping_ret"
    /\ trace' = Ended(IF pingResult THEN "true" ELSE "false")
    /\ IF pingCall = "pre"
       THEN /\ pc' = "reload"
            /\ UNCHANGED outcome
       ELSE IF pingResult
            THEN /\ pc' = "reconnect"
                 /\ UNCHANGED outcome
            ELSE /\ pc' = "teardown"
                 /\ outcome' = "no_response_or_reconnect_failed"
    /\ pingCall' = "none"
    /\ elapsed' = 0
    /\ probes' = 0
    /\ lastProbe' = "none"
    /\ UNCHANGED << connection, sessions, boot_image, error, uncaught,
                    pingResult, rcVars >>

----
\* reload_device, lines 78-88, called at line 125.

\* faulty variant of line 86: no handler
ReloadSuppresses_Never(e) == FALSE

\* line 86: the handler's clause `except OSError`
ReloadSuppresses(e) == e.type = "OSError"

\* line 87: the test that logs "Socket Closed"
IsSocketClosed(e) == e.errno = "EBADF"

\* lines 86-88 for an exception e of line 82 or 84: an OSError ends the
\* method normally (only EBADF is logged), anything else propagates to
\* line 135.  tr is the history with the running reload step.
ReloadRaises(e, tr) ==
    /\ sessions' = [sessions EXCEPT ![connection] = AfterError(e, @)]
    /\ IF ReloadSuppresses(e)
       THEN /\ trace' = SetLast(tr, IF IsSocketClosed(e) THEN "socket_closed"
                                                         ELSE "swallowed",
                                 Raised(e))
            /\ pc' = "postping"
            /\ UNCHANGED << outcome, error >>
       ELSE /\ trace' = SetLast(tr, "fail", Raised(e))
            /\ Caught(e.type)

\* lines 81-83: send "reload", wait for "Proceed with reload", sleep 2
ReloadSend ==
    /\ pc = "reload"
    /\ \/ /\ trace' = Began("reload")
          /\ pc' = "reload_confirm"
          /\ UNCHANGED << sessions, outcome, error >>
       \/ \E e \in CommandErrors : ReloadRaises(e, Began("reload"))
    /\ UNCHANGED << connection, boot_image, uncaught, pingVars, rcVars >>

\* lines 84-85: send the newline that confirms.  The device may drop the
\* session as it goes down, or keep it for a while.
ReloadConfirm ==
    /\ pc = "reload_confirm"
    /\ \/ /\ \E dropped \in BOOLEAN :
                sessions' = [sessions EXCEPT ![connection] =
                                IF dropped THEN "closed" ELSE @]
          /\ trace' = Ended("ok")
          /\ pc' = "postping"
          /\ UNCHANGED << outcome, error >>
       \/ \E e \in CommandErrors : ReloadRaises(e, trace)
    /\ UNCHANGED << connection, boot_image, uncaught, pingVars, rcVars >>

----
\* reconnect, lines 90-105, called at line 127.

\* faulty variant of line 92: `range(max_retries + 1)`
RetryAvailable_OffByOne(a) == a <= max_retries

\* line 92: `for attempt in range(max_retries)` has another value
RetryAvailable(a) == a < max_retries

\* faulty variant of lines 97-102: only the first clause
ReconnectCatches_TimeoutOnly(o) == o = "NetmikoTimeoutException"

\* lines 97-102: the clauses NetmikoTimeoutException and Exception catch
\* whatever connect() raises, each a subclass of Exception
ReconnectCatches(o) == o = "NetmikoTimeoutException" \/ IsException(o)

\* faulty variant of lines 99, 102: only the first clause sleeps
SleepFor_TimeoutOnly(e) ==
    IF e = "NetmikoTimeoutException" THEN retry_delay ELSE 0

\* lines 99, 102: both clauses sleep retry_delay
SleepFor(e) == retry_delay

\* line 91
ReconnectStart ==
    /\ pc = "reconnect"
    /\ attempt' = 0
    /\ rc_opens' = 0
    /\ rc_failed' = 0
    /\ rc_slept' = 0
    /\ rc_exc' = "none"
    /\ rc_result' = FALSE
    /\ trace' = Began("reconnect")
    /\ pc' = "rc_loop"
    /\ UNCHANGED << connection, sessions, boot_image, outcome, error,
                    uncaught, pingVars >>

\* faulty variant of lines 92-105: the range is started again when it is
\* used up (`while True` around the loop)
ReconnectLoop_Restart ==
    /\ pc = "rc_loop"
    /\ pc' = "rc_connect"
    /\ IF RetryAvailable(attempt)
       THEN UNCHANGED << attempt, rc_opens, rc_failed, rc_slept >>
       ELSE /\ attempt' = 0
            /\ rc_opens' = 0
            /\ rc_failed' = 0
            /\ rc_slept' = 0
    /\ UNCHANGED << connection, sessions, boot_image, trace, outcome, error,
                    uncaught, pingVars, rc_exc, rc_result >>

\* line 92, and lines 103-105 when the range is used up
ReconnectLoop ==
    /\ pc = "rc_loop"
    /\ IF RetryAvailable(attempt)
       THEN /\ pc' = "rc_connect"
            /\ UNCHANGED rc_result
       ELSE /\ rc_result' = FALSE
            /\ pc' = "rc_ret"
    /\ UNCHANGED << connection, sessions, boot_image, trace, outcome, error,
                    uncaught, pingVars, attempt, rc_opens, rc_failed,
                    rc_slept, rc_exc >>

\* lines 93-98, 100-101: self.connect() (lines 26-33) inside the try
ReconnectConnect ==
    /\ pc = "rc_connect"
    /\ rc_opens' = rc_opens + 1
    /\ \E o \in ConnectOutcomes :
        IF o = "ok"
        THEN /\ sessions' = Append(sessions, "open")
             /\ connection' = Len(sessions) + 1
             /\ rc_result' = TRUE
             /\ pc' = "rc_ret"
             /\ UNCHANGED << rc_failed, rc_exc, trace, outcome, error >>
        ELSE /\ rc_failed' = rc_failed + 1
             /\ IF ReconnectCatches(o)
                THEN /\ rc_exc' = o
                     /\ pc' = "rc_sleep"
                     /\ UNCHANGED << trace, outcome, error >>
                ELSE /\ trace' = Ended("fail")
                     /\ Caught(o)
                     /\ UNCHANGED rc_exc
             /\ UNCHANGED << sessions, connection, rc_result >>
    /\ UNCHANGED << boot_image, uncaught, pingVars, attempt, rc_slept >>

\* faulty variant of lines 99, 102: no sleep after the last attempt
ReconnectSleep_SkipLast ==
    /\ pc = "rc_sleep"
    /\ rc_slept' = (IF RetryAvailable(attempt + 1)
                    THEN rc_slept + SleepFor(rc_exc)
                    ELSE rc_slept)
    /\ rc_exc' = "none"
    /\ attempt' = attempt + 1
    /\ pc' = "rc_loop"
    /\ UNCHANGED << connection, sessions, boot_image, trace, outcome, error,
                    uncaught, pingVars, rc_opens, rc_failed, rc_result >>

\* lines 99, 102: time.sleep(retry_delay), then the next value of the range
ReconnectSleep ==
    /\ pc = "rc_sleep"
    /\ rc_slept' = rc_slept + SleepFor(rc_exc)
    /\ rc_exc' = "none"
    /\ attempt' = attempt + 1
    /\ pc' = "rc_loop"
    /\ UNCHANGED << connection, sessions, boot_image, trace, outcome, error,
                    uncaught, pingVars, rc_opens, rc_failed, rc_result >>

\* the return (the locals are dropped) to line 127: True enters line 128,
\* False logs line 133
ReconnectReturn ==
    /\ pc = "rc_ret"
    /\ trace' = Ended(IF rc_result THEN "true" ELSE "false")
    /\ IF rc_result
       THEN /\ pc' = "version"
            /\ UNCHANGED outcome
       ELSE /\ pc' = "teardown"
            /\ outcome' = "no_response_or_reconnect_failed"
    /\ attempt' = 0
    /\ rc_opens' = 0
    /\ rc_failed' = 0
    /\ rc_slept' = 0
    /\ UNCHANGED << connection, sessions, boot_image, error, uncaught,
                    pingVars, rc_exc, rc_result >>

----
\* lines 107-116 and 128-131
VerifyRunningVersion ==
    /\ pc = "version"
    /\ \/ \E version_output \in VersionOutputs :
            /\ IF VersionMatches(boot_image, version_output)
               THEN /\ trace' = Append(trace, Entry("version", "true", version_output))
                    /\ outcome' = "success"
               ELSE /\ trace' = Append(trace, Entry("version", "false", version_output))
                    /\ outcome' = "version_mismatch"
            /\ pc' = "teardown"
            /\ UNCHANGED << sessions, error >>
       \/ \E e \in CommandErrors : CommandFails("version", e)
    /\ UNCHANGED << connection, boot_image, uncaught, pingVars, rcVars >>

\* line 138: `if self.connection`
HasConnection(c) == c # 0

\* lines 137-140: the finally clause.  disconnect() is called outside any
\* try: what it raises leaves execute_upgrade_procedure.
Teardown ==
    /\ pc = "teardown"
    /\ IF HasConnection(connection)
       THEN \E d \in DisconnectOutcomes :
              IF d = "ok"
              THEN /\ sessions' = [sessions EXCEPT ![connection] = "closed"]
                   /\ trace' = Append(trace, Entry("teardown", "closed", << >>))
                   /\ UNCHANGED uncaught
              ELSE /\ uncaught' = TRUE
                   /\ trace' = Append(trace, Entry("teardown", "raised", << >>))
                   /\ UNCHANGED sessions
       ELSE /\ trace' = Append(trace, Entry("teardown", "none", << >>))
            /\ UNCHANGED << sessions, uncaught >>
    /\ pc' = "done"
    /\ UNCHANGED << connection, boot_image, outcome, error, pingVars, rcVars >>

Next ==
    \/ Connect
    \/ CheckBootStatement
    \/ VerifyBootImage
    \/ SaveConfiguration
    \/ PingStart
    \/ PingTest
    \/ PingProbe
    \/ PingSleep
    \/ PingReturn
    \/ ReloadSend
    \/ ReloadConfirm
    \/ ReconnectStart
    \/ ReconnectLoop
    \/ ReconnectConnect
    \/ ReconnectSleep
    \/ ReconnectReturn
    \/ VerifyRunningVersion
    \/ Teardown

Spec == Init /\ [][Next]_vars

\* One thread runs the procedure, and every call it makes (a command, a
\* probe, a sleep, connect, disconnect) returns or raises: the next step
\* is always taken.
FairSpec == Spec /\ WF_vars(Next)

----
\* Properties.

CeilDiv(a, b) == (a + b - 1) \div b

\* C1: the reboot command is issued only after Connect succeeded,
\* CheckBootStatement read a response with the boot directive,
\* VerifyBootImage read a response with the success phrase and
\* SaveConfiguration completed, in that order.
C1_RebootOnlyAfterPreconditions ==
    \A i \in Steps("reload") :
        /\ i > 4
        /\ trace[1].step = "connect" /\ trace[1].res = "ok"
        /\ Len(sessions) >= 1
        /\ trace[2].step = "check" /\ trace[2].res = "ok"
        /\ In(BootDirective, trace[2].out)
        /\ trace[3].step = "verify" /\ trace[3].res = "ok"
        /\ In(VerifiedPhrase, trace[3].out)
        /\ trace[4].step = "save" /\ trace[4].res = "ok"

C1_Witness == pc = "reload_confirm" /\ Steps("reload") # {}

\* C2: every run ends without an exception leaving the procedure, whatever
\* fails, the close of teardown included.
C2_NoUncaughtError == pc = "done" => ~uncaught

\* C3: at most one session is open in every state.
C3_AtMostOneOpenSession == Cardinality(OpenSessions) <= 1

\* C4: when the run has ended no session is open (stated for the runs whose
\* close in teardown did not raise).
C4_NoOpenSessionAtEnd == (pc = "done" /\ ~uncaught) => OpenSessions = {}

\* a step of the preconditions that failed: Connect raised, or the response
\* of CheckBootStatement or VerifyBootImage lacks its phrase
FailedPrecondition(entry) ==
    \/ entry.step = "connect" /\ entry.res # "ok"
    \/ entry.step = "check" /\ ~In(BootDirective, entry.out)
    \/ entry.step = "verify" /\ ~In(VerifiedPhrase, entry.out)

\* C5: a failed precondition is not retried and is followed by teardown
\* alone.
C5_FailedPreconditionStops ==
    \A i \in DOMAIN trace :
        FailedPrecondition(trace[i]) =>
            /\ Cardinality(Steps(trace[i].step)) = 1
            /\ i = Len(trace) => pc = "teardown"
            /\ i < Len(trace) =>
                   /\ i + 1 = Len(trace)
                   /\ trace[i + 1].step = "teardown"
                   /\ pc = "done"

C5_Witness ==
    /\ pc = "done"
    /\ \E i \in Steps("verify") :
          trace[i].out \in VerifyOutputs /\ ~In(VerifiedPhrase, trace[i].out)

\* C6: reconnect returns True after K failed opens with K+1 opens and K
\* sleeps of retry_delay, K < max_retries, and opens nothing after a
\* success.
C6_ReconnectSucceedsAfterK ==
    /\ rc_opens <= rc_failed + 1
    /\ Len(sessions) <= 2
    /\ (pc = "rc_ret" /\ rc_result) =>
          /\ rc_opens = rc_failed + 1
          /\ rc_slept = rc_failed * retry_delay
          /\ rc_failed < max_retries
          /\ connection = Len(sessions)
          /\ sessions[connection] = "open"

C6_Witness == pc = "rc_ret" /\ rc_result /\ rc_failed = 3

\* C7: reconnect returns False after exactly max_retries failed opens, never
\* after fewer, and never opens more often.
C7_ReconnectExhausts ==
    /\ rc_opens <= max_retries
    /\ (pc = "rc_ret" /\ ~rc_result) =>
          /\ rc_opens = max_retries
          /\ rc_failed = max_retries

C7_Witness == pc = "rc_ret" /\ ~rc_result /\ rc_opens = max_retries

\* C8 as claimed: ping_with_timestamp does not give up before probe N when
\* N * PollInterval < TotalWindow.
C8_Original ==
    (pc = "ping_ret" /\ ~pingResult) =>
        ~((probes + 1) * PollInterval < TotalWindow)

\* C8, amended: ping_with_timestamp returns True at the first answered
\* probe, after N - 1 unanswered ones each followed by one sleep, and does
\* not give up before probe N when N * (PollInterval + ProbeTimeout) <
\* TotalWindow.
C8_ReturnsAtFirstAnswer ==
    /\ (pc = "ping_ret" /\ pingResult) =>
          /\ lastProbe = "delay"
          /\ probes >= 1
          /\ elapsed >= (probes - 1) * PollInterval
          /\ elapsed <= (probes - 1) * (PollInterval + ProbeTimeout)
    /\ (pc = "ping_ret" /\ ~pingResult) =>
          ~((probes + 1) * (PollInterval + ProbeTimeout) < TotalWindow)

C8_Witness == pc = "ping_ret" /\ pingResult /\ probes = 60 /\ pingCall = "post"

\* C9 as claimed: without any answer ping_with_timestamp returns False after
\* ceil(TotalWindow / PollInterval) probes.
C9_Original ==
    (pc = "ping_ret" /\ ~pingResult) =>
        probes = CeilDiv(TotalWindow, PollInterval)

\* C9, amended: without any answer ping_with_timestamp returns False after
\* at most ceil(TotalWindow / PollInterval) probes and at least
\* ceil(TotalWindow / (PollInterval + ProbeTimeout)); after exactly
\* ceil(TotalWindow / PollInterval) when no probe took any time.
C9_ProbeCountBounds ==
    /\ probes <= CeilDiv(TotalWindow, PollInterval)
    /\ (pc = "ping_ret" /\ ~pingResult) =>
          /\ lastProbe = "None"
          /\ probes >= CeilDiv(TotalWindow, PollInterval + ProbeTimeout)
          /\ elapsed >= TotalWindow
          /\ elapsed = probes * PollInterval =>
                 probes = CeilDiv(TotalWindow, PollInterval)

C9_Witness ==
    /\ pc = "ping_ret" /\ ~pingResult
    /\ probes = CeilDiv(TotalWindow, PollInterval + ProbeTimeout)

\* C10: a closed socket during reload_device (at the reload command or at
\* the confirming newline) is suppressed: the run does not fail there and
\* goes on to the post-reboot ping.
C10_SocketClosedSuppressed ==
    \A i \in Steps("reload") :
        trace[i].out = << "OSError", "EBADF" >> =>
            /\ trace[i].res = "socket_closed"
            /\ i = Len(trace) =>
                   pc = "postping" /\ outcome = "none" /\ error = "none"
            /\ i < Len(trace) => trace[i + 1].step = "postping"

C10_Witness ==
    /\ Len(trace) = 7
    /\ trace[6].step = "reload" /\ trace[6].out = << "OSError", "EBADF" >>
    /\ trace[7].step = "postping"
    /\ pc = "ping_probe"

\* C11: when the post-reboot ping returns False the run ends with the
\* failure of line 133, and neither reconnect (no session is opened) nor
\* verify_running_version is called before teardown.
C11_UnreachableSkipsReconnect ==
    \A i \in Steps("postping") :
        trace[i].res = "false" =>
            /\ outcome = "no_response_or_reconnect_failed"
            /\ error = "none"
            /\ Steps("reconnect") = {}
            /\ Steps("version") = {}
            /\ Len(sessions) = 1
            /\ i = Len(trace) => pc = "teardown"
            /\ i < Len(trace) =>
                   /\ i + 1 = Len(trace)
                   /\ trace[i + 1].step = "teardown"
                   /\ pc = "done"

C11_Witness ==
    /\ pc = "done"
    /\ \E i \in Steps("postping") : trace[i].res = "false"

\* C12: the run reports success only if the post-reboot ping returned True,
\* reconnect returned True with a new session, and the version response
\* contains the boot image of step 2; a version response without it gives
\* the mismatch of line 131, and teardown follows.
C12_SuccessOnlyIfVerified ==
    /\ outcome = "success" =>
          /\ \E i \in Steps("postping") : trace[i].res = "true"
          /\ \E i \in Steps("reconnect") : trace[i].res = "true"
          /\ connection = Len(sessions) /\ Len(sessions) = 2
          /\ boot_image = LastToken(trace[2].out)
          /\ \E i \in Steps("version") : In(boot_image, trace[i].out)
    /\ \A i \in Steps("version") :
          (trace[i].out \in VersionOutputs /\ ~In(boot_image, trace[i].out)) =>
              /\ outcome = "version_mismatch"
              /\ pc \in {"teardown", "done"}
              /\ pc = "done" => trace[Len(trace)].step = "teardown"

C12_Witness == pc = "done" /\ outcome = "success"

\* C13: when the post-reboot ping succeeded and reconnect used up its
\* attempts, the final outcome differs from the one a run reports whose
\* post-reboot ping returned False (the outcome of C11).
C13_ReconnectFailedIsDistinct ==
    \A i \in Steps("reconnect") :
        trace[i].res = "false" =>
            outcome # "no_response_or_reconnect_failed"

\* C14: every run terminates: it reaches the end of the finally clause,
\* whatever the device, the probe and the transport answer.
C14_Terminates == <>(pc = "done")

C14_Witness ==
    /\ pc = "done"
    /\ \E i \in Steps("preping") : trace[i].res = "false"
    /\ \E i \in Steps("reconnect") : trace[i].res = "false"

\* C15: teardown on a session that is already closed (the device dropped
\* it during the reboot) raises nothing and leaves the session closed.
C15_TeardownOfClosedNeverRaises ==
    (/\ pc = "done"
     /\ Steps("reload") # {}
     /\ HasConnection(connection)
     /\ sessions[connection] = "closed") => ~uncaught

\* C16: the first ping does not gate the run: whether it returned True or
\* False, and save_configuration having completed before it, the reload
\* command is the next step.
C16_PrePingDoesNotGate ==
    \A i \in Steps("preping") :
        trace[i].res \in {"true", "false"} =>
            /\ i = 5
            /\ trace[4].step = "save" /\ trace[4].res = "ok"
            /\ i = Len(trace) => pc = "reload" /\ outcome = "none"
            /\ i < Len(trace) => trace[i + 1].step = "reload"

C16_Witness ==
    /\ Len(trace) >= 6
    /\ trace[5].step = "preping" /\ trace[5].res = "false"
    /\ trace[6].step = "reload"

\* C17: in reconnect every kind of failure of connect() (timeout,
\* authentication, any other error) uses up one attempt, is followed by one
\* sleep of retry_delay, and never leaves the loop as an exception.
C17_EveryOpenFailureAlike ==
    /\ \A i \in Steps("reconnect") : trace[i].res # "fail"
    /\ pc = "rc_sleep" =>
          /\ rc_exc \in ConnectOutcomes \ {"ok"}
          /\ rc_opens = attempt + 1
          /\ rc_failed = attempt + 1
          /\ rc_slept = attempt * retry_delay
          /\ error = "none"
    /\ pc = "rc_loop" =>
          /\ rc_opens = attempt
          /\ rc_failed = attempt
          /\ rc_slept = attempt * retry_delay

C17_Witness ==
    /\ pc = "rc_sleep"
    /\ rc_exc = "NetmikoAuthenticationException"
    /\ attempt = 2

\* C19: at the loop test, at the connect call and at the return of
\* reconnect the sleeps made are as many as the failed attempts (at the
\* sleep itself the one for the last failure is still to come); when the
\* attempts are used up reconnect has slept max_retries times, the last
\* time after the final failed attempt.
C19_SleepsEqualFailures ==
    /\ pc \in {"rc_loop", "rc_connect", "rc_ret"} =>
          rc_slept = rc_failed * retry_delay
    /\ pc = "rc_sleep" => rc_slept = (rc_failed - 1) * retry_delay
    /\ (pc = "rc_ret" /\ ~rc_result) =>
          /\ rc_slept = max_retries * retry_delay
          /\ attempt = max_retries

C19_Witness ==
    pc = "rc_ret" /\ ~rc_result /\ rc_slept = max_retries * retry_delay

RECURSIVE LinesAcc(_, _, _)
LinesAcc(text, cur, acc) ==
    IF text = << >>
    THEN Append(acc, cur)
    ELSE IF Head(text) = "\n"
         THEN LinesAcc(Tail(text), << >>, Append(acc, cur))
         ELSE LinesAcc(Tail(text), Append(cur, Head(text)), acc)

\* the lines of a text
Lines(text) == LinesAcc(text, << >>, << >>)

\* C18: for every response with the boot directive, of one or several
\* lines, check_boot_statement returns the trailing token of a line that
\* contains the directive, and verify_running_version searches that value.
C18_TrailingTokenOfDirectiveLine ==
    \A i \in Steps("check") :
        trace[i].res = "ok" =>
            /\ \E n \in DOMAIN Lines(trace[i].out) :
                  /\ In(BootDirective, Lines(trace[i].out)[n])
                  /\ boot_image = LastToken(Lines(trace[i].out)[n])
            /\ \A j \in Steps("version") :
                  trace[j].res = "true" <=> In(boot_image, trace[j].out)

\* C20: in reload_device an exception other than the closed socket (an
\* OSError with another errno, a timeout) ends the run: no post-reboot
\* ping, reconnect or version check follows.
C20_OnlySocketClosedSuppressed ==
    \A i \in Steps("reload") :
        (trace[i].out # << >> /\ trace[i].out # << "OSError", "EBADF" >>) =>
            /\ trace[i].res = "fail"
            /\ Steps("postping") = {}
            /\ Steps("reconnect") = {}
            /\ Steps("version") = {}

====
